---- MODULE Spec2Model ----
(***************************************************************************)
(* Model of the mern-todo-app: the four Express route handlers of          *)
(* backend/routes/tasks.js over the Mongoose model Task (schema in         *)
(* ReadMe.md, section 1.6), and the React client of ReadMe.md sections     *)
(* 2.3-2.5 (TaskList, Task, AddTask).                                      *)
(*                                                                         *)
(* Spec        : the service alone, driven by arbitrary HTTP requests.     *)
(* HistorySpec : the same, remembering the ids whose DELETE answered 204.  *)
(* ClientSpec  : one browser client talking to the service; requests and   *)
(*               responses are delivered in any order.                     *)
(***************************************************************************)
EXTENDS Integers, FiniteSets, Sequences, TLC

(***************************************************************************)
(* Bounds                                                                  *)
(***************************************************************************)
\* number of ObjectIds the store hands out in a run
MaxIds == 2
\* number of user actions (add, toggle, delete) of the client in a run
MaxActions == 3

(***************************************************************************)
(* JSON values as they arrive in req.body and as they are stored.  All     *)
(* values have the same shape so that any two can be compared.             *)
(***************************************************************************)
JUndef == [t |-> "undefined", s |-> "", b |-> FALSE]
JNull == [t |-> "null", s |-> "", b |-> FALSE]
JObj == [t |-> "object", s |-> "", b |-> FALSE]
JBool(b) == [t |-> "boolean", s |-> "", b |-> b]
JStr(s) == [t |-> "string", s |-> s, b |-> FALSE]

\* a value Mongoose refuses to cast
CastError == [t |-> "CastError", s |-> "", b |-> FALSE]

\* titles a request body may carry: two texts, the empty text, no title,
\* and a value that is no text
BodyTitles == {JStr("a"), JStr("b"), JStr(""), JUndef, JObj}
\* completed values a request body may carry
BodyCompleted == {JBool(TRUE), JBool(FALSE), JNull, JUndef, JStr("yes"), JStr("a")}
\* request bodies: express.json() hands the handler every member sent, so a
\* POST body may carry completed and a PUT body may carry title
PostBodies ==
    [title : BodyTitles, completed : {JUndef}]
        \cup {[title |-> JStr("a"), completed |-> JBool(TRUE)]}
PutBodies ==
    [title : {JUndef}, completed : BodyCompleted]
        \cup {[title |-> JStr("b"), completed |-> JBool(TRUE)]}
NoBody == [title |-> JUndef, completed |-> JUndef]

\* :id path parameters: ids the store hands out (1..MaxIds, before or after
\* it does so) and a string that is no ObjectId (-1)
StoreIds == 1..MaxIds
PathIds == StoreIds \cup {-1}

(***************************************************************************)
(* State                                                                   *)
(***************************************************************************)
VARIABLES
    store,      \* the tasks collection: a set of documents
    nextId,     \* the next ObjectId new Task() generates
    last,       \* the request served last, its response, the store before it
    deleted,    \* ids for which some DELETE answered 204
    tasks,      \* client: TaskList's state `tasks`
    calls,      \* client: the async handler invocations that have not returned
    nextCall,   \* client: number of handler invocations started so far
    actions,    \* client: number of user actions so far
    failed      \* client: some request was answered with an error status

vars == <<store, nextId, last, deleted, tasks, calls, nextCall, actions, failed>>
historyVars == <<last, deleted>>
clientVars == <<tasks, calls, nextCall, actions, failed>>

(***************************************************************************)
(* The Task schema                                                         *)
(***************************************************************************)
\* SchemaString cast of title: a text is kept, a boolean is printed,
\* null and undefined are left for the required validator, an object fails
CastTitle(v) ==
    CASE v.t = "string" -> v
      [] v.t = "boolean" -> JStr(IF v.b THEN "true" ELSE "false")
      [] v.t \in {"undefined", "null"} -> v
      [] OTHER -> CastError

\* required: true on a String path: a non-empty text
TitleRequired(v) == v.t = "string" /\ v.s # ""

\* completed: default false
CompletedDefault == JBool(FALSE)

\* SchemaBoolean cast of completed: convertToTrue, convertToFalse, null kept
CastCompleted(v) ==
    CASE v.t = "boolean" -> v
      [] v.t = "string" /\ v.s \in {"true", "1", "yes"} -> JBool(TRUE)
      [] v.t = "string" /\ v.s \in {"false", "0", "no"} -> JBool(FALSE)
      [] v.t = "null" -> JNull
      [] OTHER -> CastError

(***************************************************************************)
(* Responses                                                               *)
(***************************************************************************)
ServerError == [status |-> 500, kind |-> "error", docs |-> {}, message |-> "Server Error"]
JsonTask(status, doc) == [status |-> status, kind |-> "object", docs |-> {doc}, message |-> ""]
JsonNull(status) == [status |-> status, kind |-> "null", docs |-> {}, message |-> ""]
JsonArray(status, docs) == [status |-> status, kind |-> "array", docs |-> docs, message |-> ""]
SendEmpty(status) == [status |-> status, kind |-> "empty", docs |-> {}, message |-> ""]

\* what a handler does: its response and the store it leaves
Outcome(resp, st, nid) == [resp |-> resp, store |-> st, nextId |-> nid]

(***************************************************************************)
(* The Mongoose model Task.  `up` says whether the database answers; when  *)
(* it does not, the call rejects before anything is written.               *)
(***************************************************************************)
\* a :id that casts to an ObjectId
ValidObjectId(id) == id >= 1

\* fault: new Task(req.body), the whole body handed to the model
NewTaskWholeBody(body, nid) ==
    [_id |-> nid, title |-> CastTitle(body.title),
     completed |-> IF body.completed.t = "undefined" THEN CompletedDefault
                   ELSE CastCompleted(body.completed)]

\* new Task({ title }): only title is taken from the body; _id is generated
\* here, completed gets its default
NewTask(body, nid) ==
    [_id |-> nid, title |-> CastTitle(body.title), completed |-> CompletedDefault]

\* the document's validation before save
validate(doc) == doc.title # CastError /\ TitleRequired(doc.title)

\* fault: the document is inserted before it is validated
saveThenValidate(doc, st, up) ==
    [threw |-> ~(up /\ validate(doc)), store |-> IF up THEN st \cup {doc} ELSE st]

\* newTask.save(): validates, then inserts
save(doc, st, up) ==
    IF up /\ validate(doc)
    THEN [threw |-> FALSE, store |-> st \cup {doc}]
    ELSE [threw |-> TRUE, store |-> st]

\* Task.find()
find(st, up) == [threw |-> ~up, docs |-> IF up THEN st ELSE {}]

\* fault: req.body handed to findByIdAndUpdate as the update
UpdateDocWholeBody(body) == body

\* fault: the update marks the task completed whatever the body says
UpdateDocAlwaysTrue(body) == [completed |-> JBool(TRUE)]

\* the update object { completed } built from req.body
UpdateDoc(body) == [completed |-> body.completed]

\* the cast of one path of an update by the schema
CastPath(k, v) == IF k = "title" THEN CastTitle(v) ELSE CastCompleted(v)

\* castUpdate: the $set Mongoose sends.  A key whose value is undefined is
\* dropped (omit, Mongoose 6 and later) or sent as null (Mongoose 5)
castUpdate(update, omit) ==
    [k \in {f \in DOMAIN update : update[f].t # "undefined" \/ ~omit} |->
        IF update[k].t = "undefined" THEN JNull ELSE CastPath(k, update[k])]

\* the document with the $set applied
applySet(doc, set) ==
    [f \in DOMAIN doc |-> IF f \in DOMAIN set THEN set[f] ELSE doc[f]]

\* fault: { new: true } left out, the document before the update is returned
findByIdAndUpdateOld(id, update, st, up, omit) ==
    LET set == castUpdate(update, omit)
        found == {d \in st : d._id = id}
    IN IF ~up \/ ~ValidObjectId(id) \/ (\E k \in DOMAIN set : set[k] = CastError)
       THEN [threw |-> TRUE, docs |-> {}, store |-> st]
       ELSE [threw |-> FALSE, docs |-> found,
             store |-> (st \ found) \cup {applySet(d, set) : d \in found}]

\* Task.findByIdAndUpdate(id, { completed }, { new: true }): resolves to the
\* updated document, or to null (no docs) when no document has the id
findByIdAndUpdate(id, update, st, up, omit) ==
    LET set == castUpdate(update, omit)
        found == {d \in st : d._id = id}
        updated == {applySet(d, set) : d \in found}
    IN IF ~up \/ ~ValidObjectId(id) \/ (\E k \in DOMAIN set : set[k] = CastError)
       THEN [threw |-> TRUE, docs |-> {}, store |-> st]
       ELSE [threw |-> FALSE, docs |-> updated, store |-> (st \ found) \cup updated]

\* Task.findByIdAndDelete(id)
findByIdAndDelete(id, st, up) ==
    IF ~up \/ ~ValidObjectId(id)
    THEN [threw |-> TRUE, store |-> st]
    ELSE [threw |-> FALSE, store |-> {d \in st : d._id # id}]

(***************************************************************************)
(* The route handlers                                                      *)
(***************************************************************************)
\* router.post('/tasks')
PostTasks(body, st, nid, up) ==
    LET r == save(NewTask(body, nid), st, up)
    IN IF r.threw THEN Outcome(ServerError, r.store, nid + 1)
       ELSE Outcome(JsonTask(201, NewTask(body, nid)), r.store, nid + 1)

\* router.get('/tasks')
GetTasks(st, nid, up) ==
    LET r == find(st, up)
    IN IF r.threw THEN Outcome(ServerError, st, nid)
       ELSE Outcome(JsonArray(200, r.docs), st, nid)

\* router.put('/tasks/:id')
PutTasksId(id, body, st, nid, up, omit) ==
    LET r == findByIdAndUpdate(id, UpdateDoc(body), st, up, omit)
    IN IF r.threw THEN Outcome(ServerError, r.store, nid)
       ELSE IF r.docs = {} THEN Outcome(JsonNull(200), r.store, nid)
       ELSE Outcome(JsonTask(200, CHOOSE d \in r.docs : TRUE), r.store, nid)

\* router.delete('/tasks/:id')
DeleteTasksId(id, st, nid, up) ==
    LET r == findByIdAndDelete(id, st, up)
    IN IF r.threw THEN Outcome(ServerError, r.store, nid)
       ELSE Outcome(SendEmpty(204), r.store, nid)

(***************************************************************************)
(* The service driven by arbitrary requests                                *)
(***************************************************************************)
\* how the request being served follows the one served before it (l):
\* a GET right after a POST answered 201 or after a PUT answered with a
\* task, a PUT right after the same PUT answered with a task
Follows(op, id, body, l) ==
    CASE op = "List" /\ l.op = "Create" /\ l.resp.status = 201 -> "Create201"
      [] op = "List" /\ l.op = "Update" /\ l.resp.kind = "object" -> "Update200"
      [] op = "Update" /\ l.op = "Update" /\ l.resp.kind = "object"
            /\ l.id = id /\ l.completed = body.completed -> "same200"
      [] OTHER -> "other"

\* the record kept of the request served last: the request, its response,
\* the collection it found (kept for a POST), how it follows the one before
Served(op, id, body, resp, found, follows) ==
    [op |-> op, id |-> id, title |-> body.title, completed |-> body.completed,
     resp |-> resp, found |-> found, follows |-> follows]

\* the Mongoose builds differ only on a key that is undefined
OmitChoices(body) == IF body.completed.t = "undefined" THEN BOOLEAN ELSE {TRUE}

Init ==
    /\ store = {}
    /\ nextId = 1
    /\ last = Served("none", 0, NoBody, SendEmpty(0), {}, "other")
    /\ deleted = {}
    /\ tasks = {}
    /\ calls = {}
    /\ nextCall = 0
    /\ actions = 0
    /\ failed = FALSE

\* POST /api/tasks
Create(body, up) ==
    /\ nextId <= MaxIds
    /\ LET o == PostTasks(body, store, nextId, up)
       IN /\ store' = o.store
          /\ nextId' = o.nextId
          /\ last' = Served("Create", 0, body, o.resp, store, "other")
    /\ UNCHANGED <<deleted, clientVars>>

\* GET /api/tasks
List(up) ==
    /\ LET o == GetTasks(store, nextId, up)
       IN /\ store' = o.store
          /\ nextId' = o.nextId
          /\ last' = Served("List", 0, NoBody, o.resp, {}, Follows("List", 0, NoBody, last))
    /\ UNCHANGED <<deleted, clientVars>>

\* PUT /api/tasks/:id
Update(id, body, up, omit) ==
    /\ LET o == PutTasksId(id, body, store, nextId, up, omit)
       IN /\ store' = o.store
          /\ nextId' = o.nextId
          /\ last' = Served("Update", id, body, o.resp, {}, Follows("Update", id, body, last))
    /\ UNCHANGED <<deleted, clientVars>>

\* DELETE /api/tasks/:id
Delete(id, up) ==
    /\ LET o == DeleteTasksId(id, store, nextId, up)
       IN /\ store' = o.store
          /\ nextId' = o.nextId
          /\ last' = Served("Delete", id, NoBody, o.resp, {}, "other")
    /\ UNCHANGED <<deleted, clientVars>>

Next ==
    \/ \E body \in PostBodies, up \in BOOLEAN : Create(body, up)
    \/ \E up \in BOOLEAN : List(up)
    \/ \E id \in PathIds, body \in PutBodies, up \in BOOLEAN :
          \E omit \in OmitChoices(body) : Update(id, body, up, omit)
    \/ \E id \in PathIds, up \in BOOLEAN : Delete(id, up)

Spec == Init /\ [][Next]_vars

(***************************************************************************)
(* The same service, with the ids whose DELETE answered 204 remembered     *)
(***************************************************************************)
DeleteRemembered(id, up) ==
    /\ LET o == DeleteTasksId(id, store, nextId, up)
       IN /\ store' = o.store
          /\ nextId' = o.nextId
          /\ last' = Served("Delete", id, NoBody, o.resp, {}, "other")
          /\ deleted' = IF o.resp.status = 204 THEN deleted \cup {id} ELSE deleted
    /\ UNCHANGED clientVars

HistoryNext ==
    \/ \E body \in PostBodies, up \in BOOLEAN : Create(body, up)
    \/ \E up \in BOOLEAN : List(up)
    \/ \E id \in PathIds, body \in PutBodies, up \in BOOLEAN :
          \E omit \in OmitChoices(body) : Update(id, body, up, omit)
    \/ \E id \in PathIds, up \in BOOLEAN : DeleteRemembered(id, up)

HistorySpec == Init /\ [][HistoryNext]_vars

(***************************************************************************)
(* The React client: TaskList, Task and AddTask.  Every invocation of an   *)
(* async handler is a call; it waits for one axios request at a time.  A   *)
(* request is served by the route handler at some moment, and its response *)
(* reaches the client at some later moment; neither order is fixed.        *)
(***************************************************************************)
\* titles the form submits (the input is `required`)
FormTitles == {"a"}

\* JavaScript truthiness and the ! operator
Truthy(v) == (v.t = "boolean" /\ v.b) \/ (v.t = "string" /\ v.s # "") \/ v.t = "object"
Negate(v) == JBool(~Truthy(v))

\* a call of `handler` that has just sent the request `awaiting`
Call(n, handler, awaiting, id, body) ==
    [n |-> n, handler |-> handler, awaiting |-> awaiting, id |-> id, body |-> body,
     stage |-> "request", resp |-> SendEmpty(0)]

\* axios resolves on a 2xx status and rejects otherwise
Resolves(resp) == resp.status >= 200 /\ resp.status < 300

\* useEffect(() => { fetchTasks(); }, []): the first fetch, at mount
Mount ==
    /\ nextCall = 0
    /\ calls' = calls \cup {Call(nextCall, "fetchTasks", "get", 0, NoBody)}
    /\ nextCall' = nextCall + 1
    /\ UNCHANGED <<store, nextId, historyVars, tasks, actions, failed>>

\* POSTs sent and not served yet
PostsInFlight == {c \in calls : c.awaiting = "post" /\ c.stage = "request"}

\* AddTask.handleSubmit up to its await: axios.post('/api/tasks', { title })
handleSubmit(title) ==
    /\ nextCall > 0
    /\ actions < MaxActions
    /\ nextId + Cardinality(PostsInFlight) <= MaxIds
    /\ calls' = calls \cup
          {Call(nextCall, "handleSubmit", "post", 0, [title |-> JStr(title), completed |-> JUndef])}
    /\ nextCall' = nextCall + 1
    /\ actions' = actions + 1
    /\ UNCHANGED <<store, nextId, historyVars, tasks, failed>>

\* TaskList.handleComplete up to its await, for a task on display:
\* axios.put(`/api/tasks/${id}`, { completed: !task.completed })
handleComplete(id) ==
    /\ actions < MaxActions
    /\ \E task \in tasks :
          /\ task._id = id
          /\ calls' = calls \cup
                {Call(nextCall, "handleComplete", "put", id,
                      [title |-> JUndef, completed |-> Negate(task.completed)])}
    /\ nextCall' = nextCall + 1
    /\ actions' = actions + 1
    /\ UNCHANGED <<store, nextId, historyVars, tasks, failed>>

\* TaskList.handleDelete up to its await, for a task on display:
\* axios.delete(`/api/tasks/${id}`)
handleDelete(id) ==
    /\ actions < MaxActions
    /\ \E task \in tasks : task._id = id
    /\ calls' = calls \cup {Call(nextCall, "handleDelete", "delete", id, NoBody)}
    /\ nextCall' = nextCall + 1
    /\ actions' = actions + 1
    /\ UNCHANGED <<store, nextId, historyVars, tasks, failed>>

\* the route handler that serves the request of call c
Route(c, up, omit) ==
    CASE c.awaiting = "post" -> PostTasks(c.body, store, nextId, up)
      [] c.awaiting = "get" -> GetTasks(store, nextId, up)
      [] c.awaiting = "put" -> PutTasksId(c.id, c.body, store, nextId, up, omit)
      [] c.awaiting = "delete" -> DeleteTasksId(c.id, store, nextId, up)

\* the service handles the request of call c and sends its response
Serve(c, up, omit) ==
    /\ c.stage = "request"
    /\ LET o == Route(c, up, omit)
       IN /\ store' = o.store
          /\ nextId' = o.nextId
          /\ calls' = (calls \ {c}) \cup {[c EXCEPT !.stage = "response", !.resp = o.resp]}
    /\ UNCHANGED <<historyVars, tasks, nextCall, actions, failed>>

\* the response to a GET arrives: fetchTasks goes on with setTasks(res.data);
\* on an error status the await throws and the call ends
ReceiveList(c) ==
    /\ c.stage = "response" /\ c.awaiting = "get"
    /\ calls' = calls \ {c}
    /\ tasks' = IF Resolves(c.resp) THEN c.resp.docs ELSE tasks
    /\ failed' = (failed \/ ~Resolves(c.resp))
    /\ UNCHANGED <<store, nextId, historyVars, nextCall, actions>>

\* the response to a POST, PUT or DELETE arrives: the handler goes on to
\* fetchTasks(), which sends a GET; on an error status the await throws
\* (handleSubmit logs it) and the call ends without a fetch
ReceiveMutation(c) ==
    /\ c.stage = "response" /\ c.awaiting # "get"
    /\ calls' = (calls \ {c}) \cup
          (IF Resolves(c.resp)
           THEN {[c EXCEPT !.awaiting = "get", !.stage = "request", !.resp = SendEmpty(0)]}
           ELSE {})
    /\ failed' = (failed \/ ~Resolves(c.resp))
    /\ UNCHANGED <<store, nextId, historyVars, tasks, nextCall, actions>>

ClientNext ==
    \/ Mount
    \/ \E title \in FormTitles : handleSubmit(title)
    \/ \E id \in StoreIds : handleComplete(id)
    \/ \E id \in StoreIds : handleDelete(id)
    \/ \E c \in calls, up \in BOOLEAN : \E omit \in OmitChoices(c.body) : Serve(c, up, omit)
    \/ \E c \in calls : ReceiveList(c)
    \/ \E c \in calls : ReceiveMutation(c)

ClientSpec == Init /\ [][ClientNext]_vars

(***************************************************************************)
(* Properties of the service                                               *)
(***************************************************************************)
Ids(docs) == {d._id : d \in docs}

\* a GET answered 200 right after a POST answered 201 for a valid title
CreateThenListStep ==
    /\ last.op = "Create" /\ last.resp.status = 201 /\ TitleRequired(last.title)
    /\ last'.op = "List" /\ last'.resp.status = 200

\* C1: a successful Create of a valid title immediately followed by List
\* returns the collection the Create found plus exactly one new Task, with
\* the given title, completed false and an id the collection did not hold;
\* the Create answered 201 with that Task.
C1_CreateThenList ==
    [][CreateThenListStep =>
        \E t \in last'.resp.docs :
            /\ last'.resp.docs = last.found \cup {t}
            /\ t \notin last.found
            /\ t._id \notin Ids(last.found)
            /\ t.title = last.title
            /\ t.completed = JBool(FALSE)
            /\ last.resp = JsonTask(201, t)]_vars

C1_Witness ==
    /\ last.op = "List" /\ last.follows = "Create201" /\ last.resp.status = 200
    /\ Cardinality(last.resp.docs) = 2

\* C2: a PUT or DELETE whose id matches no stored Task is answered with the
\* generic server error (500, {message: "Server Error"}), never a success.
C2_NotFoundIsServerError ==
    [][(last'.op \in {"Update", "Delete"} /\ last'.id \notin Ids(store))
        => last'.resp = ServerError]_vars

\* C3: every stored Task has a non-empty title and a boolean completed.
C3_StoredTasksWellFormed ==
    \A d \in store : TitleRequired(d.title) /\ d.completed.t = "boolean"

\* a GET answered 200 right after a PUT of a boolean answered with a task
UpdateThenListStep ==
    /\ last.op = "Update" /\ last.resp.kind = "object" /\ last.completed.t = "boolean"
    /\ last'.op = "List" /\ last'.resp.status = 200

\* C4: a successful Update(id, c) of a stored id with a boolean c answers 200
\* with the updated Task, and a List right after it shows the task with
\* that id with completed equal to c.
C4_UpdateThenList ==
    [][UpdateThenListStep =>
        /\ last.resp.status = 200
        /\ \E t \in last'.resp.docs :
              /\ t._id = last.id
              /\ t.completed = last.completed
              /\ last.resp = JsonTask(200, t)
        /\ \A t \in last'.resp.docs : t._id = last.id => t.completed = last.completed]_vars

C4_Witness ==
    /\ last.op = "List" /\ last.follows = "Update200" /\ last.resp.status = 200
    /\ \E t \in last.resp.docs : t.completed = JBool(TRUE)
    /\ \E t \in last.resp.docs : t.completed = JBool(FALSE)

\* C5: after a Delete(id) answered 204, no later List returns a task with
\* that id, whatever requests follow.
C5_DeletedNeverListed ==
    (last.op = "List" /\ last.resp.status = 200)
        => \A t \in last.resp.docs : t._id \notin deleted

\* C6: Update(id, c) changes nothing in the store but the completed field
\* of the record with that id: no record is added or removed, that record
\* keeps its id and title, every other record is unchanged.
C6_UpdateFrame ==
    [][last'.op = "Update" =>
        /\ Ids(store') = Ids(store)
        /\ Cardinality(store') = Cardinality(store)
        /\ \A d \in store : \E e \in store' :
              /\ e._id = d._id
              /\ e.title = d.title
              /\ d._id # last'.id => e = d]_vars

C6_Witness ==
    /\ last.op = "Update" /\ last.resp.kind = "object" /\ last.title = JStr("b")
    /\ Cardinality(store) = 2
    /\ \E d \in store : d._id = last.id /\ d.title = JStr("a")

\* C7: a failed operation answers 500 with exactly {message: "Server Error"}
\* and leaves the stored collection as it was; a Create whose title is
\* missing or empty is such a failure.
C7_FailureLeavesStore ==
    [][/\ last'.resp.status \notin {200, 201, 204}
            => (last'.resp = ServerError /\ store' = store)
       /\ (last'.op = "Create" /\ ~TitleRequired(last'.title))
            => (last'.resp = ServerError /\ store' = store)]_vars

C7_Witness ==
    /\ last.op = "Create" /\ last.title = JUndef /\ last.resp = ServerError
    /\ store # {}

\* a PUT of completed true answered 200 right after the same PUT answered 200
UpdateTwiceStep ==
    /\ last.op = "Update" /\ last.resp.status = 200 /\ last.completed = JBool(TRUE)
    /\ last'.op = "Update" /\ last'.resp.status = 200 /\ last'.completed = JBool(TRUE)
    /\ last'.id = last.id

\* C8: Update(id, true) applied twice in succession leaves the store as the
\* first application left it and returns the same Task.
C8_UpdateIdempotent ==
    [][UpdateTwiceStep => (store' = store /\ last'.resp = last.resp)]_vars

C8_Witness ==
    /\ last.op = "Update" /\ last.follows = "same200" /\ last.completed = JBool(TRUE)
    /\ last.resp.kind = "object"
    /\ Cardinality(store) = 2

(***************************************************************************)
(* Properties of the client                                                *)
(***************************************************************************)
\* C9: whenever no request of the client is in flight and every request it
\* issued succeeded, the list on display equals the stored collection.
C9_DisplayMirrorsStore ==
    (nextCall > 0 /\ calls = {} /\ ~failed) => tasks = store

\* the refresh of a toggle is applied: the GET that handleComplete sent
\* after its PUT is answered 200 and setTasks runs
ToggleRefreshed(c) ==
    /\ c \in calls /\ c \notin calls'
    /\ c.handler = "handleComplete" /\ c.awaiting = "get" /\ c.stage = "response"
    /\ Resolves(c.resp)

\* C10: a toggle sends one Update with the negation of the completed value
\* on display, sends its List only after the Update is answered, and the
\* display refreshed by that List shows the task with the value flipped.
C10_ToggleFlipsDisplay ==
    [][\A c \in calls : ToggleRefreshed(c) =>
          \E task \in tasks' : task._id = c.id /\ task.completed = c.body.completed]_vars

====
